---------------------------- MODULE Spec2Model ----------------------------
(***************************************************************************)
(* Model of the reflow engine of naologic-erp:                             *)
(*   src/src/reflow/reflow.service.ts   ReflowService (driver, resolver)   *)
(*   src/src/utils/date-utils.ts        calendar arithmetic                *)
(*   src/unnamed/part_000               contraint-checker (validator, DFS) *)
(*                                                                         *)
(* Instants are minutes since Monday 00:00 UTC of the week the schedule    *)
(* starts in.  A date string is a record [t, canon]: t is the instant it   *)
(* denotes and canon says whether it is written the way luxon's toISO()    *)
(* writes it.  DateTime.fromISO drops the spelling, toISO() always writes  *)
(* the canonical one, and === / !== on strings compare both fields.        *)
(*                                                                         *)
(* Work orders are objects shared by reference between this.workOrders,    *)
(* this.workCenterSchedules, this.schedule and the working queue: the      *)
(* variable workOrders is the heap (index = object identity) and every     *)
(* other collection holds indices into it.                                 *)
(***************************************************************************)
EXTENDS Integers, Sequences, FiniteSets

VARIABLES workCenters, workOrders, inputOrders, workCenterSchedules,
          schedule, changes, workingOrders, processedCount, pc, result, run

vars == << workCenters, workOrders, inputOrders, workCenterSchedules,
           schedule, changes, workingOrders, processedCount, pc, result, run >>

-----------------------------------------------------------------------------
(* Bounds of the model (inputs are drawn from sets built from these).      *)

\* start instants of input orders: Monday 14:00 + k hours, k in 0..MaxSlot
MaxSlot == 2
\* durations (and input end offsets) of k hours, k in 0..MaxHours
MaxHours == 2
\* number of orders in the dependency family of inputs
MaxOrders == 2
\* call-stack frames the runtime grants getNextAvailableTime's recursion
MaxStackDepth == 8

(* Program constants.                                                      *)
DaysPerWeek == 7
CalcMaxIterations == 10000
MaxAttempts == 100
IterationsPerOrder == 100

MinutesPerDay == 24 * 60

-----------------------------------------------------------------------------
(* luxon DateTime, as far as the program uses it.                          *)

FromISO(date) == date.t

ToISO(t) == [t |-> t, canon |-> TRUE]

\* DateTime.weekday: 1 = Monday .. 7 = Sunday (instant 0 is a Monday 00:00)
Weekday(t) == ((t \div MinutesPerDay) % DaysPerWeek) + 1

StartOfDay(t) == (t \div MinutesPerDay) * MinutesPerDay

\* current.plus({ days: 1 }).startOf('day')
NextDayStart(t) == StartOfDay(t) + MinutesPerDay

\* current.set({ hour: h, minute: 0, second: 0 })
SetHour(t, h) == StartOfDay(t) + h * 60

Max(a, b) == IF a > b THEN a ELSE b

Min(a, b) == IF a < b THEN a ELSE b

-----------------------------------------------------------------------------
(* date-utils.ts                                                           *)

NoShift == [dayOfWeek |-> -1, startHour |-> 0, endHour |-> 0]

\* shifts.find(s => s.dayOfWeek === dayOfWeek) || null
GetShiftForDay(dayOfWeek, workCenter) ==
    LET shifts == workCenter.shifts
        hits == {i \in 1..Len(shifts) : shifts[i].dayOfWeek = dayOfWeek}
    IN IF hits = {} THEN NoShift
       ELSE shifts[CHOOSE i \in hits : \A j \in hits : i <= j]

IsInMaintenanceWindow(date, workCenter) ==
    LET dt == FromISO(date)
        mws == workCenter.maintenanceWindows
    IN \E i \in 1..Len(mws) :
          dt >= FromISO(mws[i].startDate) /\ dt < FromISO(mws[i].endDate)

\* Results of the helpers that can throw: err = "" on a normal return.
Ok(date) == [err |-> "", date |-> date]

Threw(e) == [err |-> e, date |-> ToISO(0)]

\* maintenanceWindows.find(w => current >= start && current < end): the
\* index of the first window holding t, 0 if none
FindWindow(t, workCenter) ==
    LET mws == workCenter.maintenanceWindows
        inside == {i \in 1..Len(mws) :
                      t >= FromISO(mws[i].startDate) /\ t < FromISO(mws[i].endDate)}
    IN IF inside = {} THEN 0 ELSE CHOOSE i \in inside : \A j \in inside : i <= j

\* getNextAvailableTime: depth counts the frames of its recursion on the
\* call stack.  A recursion that outgrows the stack ends in the runtime's
\* RangeError.  InShiftFrom is lines 117-140, from the instant current that
\* lines 103-115 arrive at.
RECURSIVE NextAvailableFrom(_, _, _), InShiftFrom(_, _, _, _)
NextAvailableFrom(date, workCenter, depth) ==
    IF depth > MaxStackDepth
    THEN Threw("RangeError: Maximum call stack size exceeded")
    ELSE IF FindWindow(FromISO(date), workCenter) = 0
    THEN InShiftFrom(FromISO(date), workCenter, depth,
            GetShiftForDay(Weekday(FromISO(date)) % DaysPerWeek, workCenter))
    ELSE LET inWindow == workCenter.maintenanceWindows[FindWindow(FromISO(date), workCenter)]
         IN InShiftFrom(FromISO(inWindow.endDate), workCenter, depth,
               GetShiftForDay(Weekday(FromISO(inWindow.endDate)) % DaysPerWeek, workCenter))

InShiftFrom(current, workCenter, depth, shift) ==
    IF shift = NoShift
    THEN NextAvailableFrom(ToISO(NextDayStart(current)), workCenter, depth + 1)
    ELSE IF current < SetHour(current, shift.startHour)
    THEN Ok(ToISO(SetHour(current, shift.startHour)))
    ELSE Ok(ToISO(current))

GetNextAvailableTime(date, workCenter) == NextAvailableFrom(date, workCenter, 1)

\* ShiftPass working off all of remaining in the current shift, without the
\* Math.min against the minutes left before the shift ends
ShiftPass_NoCarry(current, remaining, shift) ==
    IF shift = NoShift
    THEN [err |-> "", current |-> NextDayStart(current), remaining |-> remaining]
    ELSE IF current < SetHour(current, shift.startHour)
    THEN [err |-> "", current |-> SetHour(current, shift.startHour),
          remaining |-> remaining]
    ELSE IF current >= SetHour(current, shift.endHour)
    THEN [err |-> "", current |-> NextDayStart(current), remaining |-> remaining]
    ELSE [err |-> "", current |-> current + remaining, remaining |-> 0]

\* Lines 41-67 of calculateEndDateWithShifts: the rest of a pass of its
\* while loop once the day's shift is known.
ShiftPass(current, remaining, shift) ==
    IF shift = NoShift
    THEN [err |-> "", current |-> NextDayStart(current), remaining |-> remaining]
    ELSE IF current < SetHour(current, shift.startHour)
    THEN [err |-> "", current |-> SetHour(current, shift.startHour),
          remaining |-> remaining]
    ELSE IF current >= SetHour(current, shift.endHour)
    THEN [err |-> "", current |-> NextDayStart(current), remaining |-> remaining]
    ELSE
    LET shiftEnd == SetHour(current, shift.endHour)
        availableMinutes == shiftEnd - current
        minutesToWork == Min(remaining, availableMinutes)
    IN [err |-> "",
        current |-> IF remaining - minutesToWork > 0 /\ current + minutesToWork >= shiftEnd
                    THEN NextDayStart(current + minutesToWork)
                    ELSE current + minutesToWork,
        remaining |-> remaining - minutesToWork]

\* Lines 26-29: current becomes the instant getNextAvailableTime returned.
MaintenanceJump(nextAvailable, remaining) ==
    [err |-> nextAvailable.err, current |-> FromISO(nextAvailable.date),
     remaining |-> remaining]

\* One pass of the while loop of calculateEndDateWithShifts.  isoStart is
\* currentIsoTime: it is computed once before the loop and the maintenance
\* test and the jump both read it, not current.
CalcIteration(current, remaining, isoStart, workCenter) ==
    IF IsInMaintenanceWindow(isoStart, workCenter)
    THEN MaintenanceJump(GetNextAvailableTime(isoStart, workCenter), remaining)
    ELSE ShiftPass(current, remaining,
                   GetShiftForDay(Weekday(current) % DaysPerWeek, workCenter))

\* The while loop and what follows it (CalcLoop tests the loop condition,
\* CalcNext continues from the state nxt a pass left).  A pass that changes
\* neither current nor remainingMinutes is repeated unchanged by every later
\* pass, so the loop then runs until iterations reaches maxIterations and
\* the function throws; the model takes that exit at once instead of
\* unrolling it.
RECURSIVE CalcLoop(_, _, _, _, _), CalcNext(_, _, _, _, _, _)
CalcLoop(current, remaining, iterations, isoStart, workCenter) ==
    IF remaining > 0 /\ iterations < CalcMaxIterations
    THEN CalcNext(current, remaining, iterations, isoStart, workCenter,
                  CalcIteration(current, remaining, isoStart, workCenter))
    ELSE IF iterations >= CalcMaxIterations
         THEN Threw("Infinite loop detected in date calculation")
         ELSE Ok(ToISO(current))

CalcNext(current, remaining, iterations, isoStart, workCenter, nxt) ==
    IF nxt.err # "" THEN Threw(nxt.err)
    ELSE IF nxt.current = current /\ nxt.remaining = remaining
    THEN Threw("Infinite loop detected in date calculation")
    ELSE CalcLoop(nxt.current, nxt.remaining, iterations + 1, isoStart, workCenter)

CalculateEndDateWithShifts(workOrder, workCenter) ==
    CalcLoop(FromISO(workOrder.startDate), workOrder.durationMinutes, 0,
             ToISO(FromISO(workOrder.startDate)), workCenter)

\* endDt.diff(startDt, 'minutes').minutes
GetMinutesDiff(start, end) == FromISO(end) - FromISO(start)

-----------------------------------------------------------------------------
(* contraint-checker (src/unnamed/part_000)                                *)

\* HasWorkCenterConflict with end2 written where start2 belongs
HasWorkCenterConflict_WrongBound(wo1, wo2) ==
    IF wo1.workCenterId # wo2.workCenterId THEN FALSE
    ELSE FromISO(wo1.startDate) < FromISO(wo2.endDate)
         /\ FromISO(wo1.endDate) > FromISO(wo2.endDate)

HasWorkCenterConflict(wo1, wo2) ==
    IF wo1.workCenterId # wo2.workCenterId THEN FALSE
    ELSE FromISO(wo1.startDate) < FromISO(wo2.endDate)
         /\ FromISO(wo1.endDate) > FromISO(wo2.startDate)

\* array.find(wo => wo.docId === id): the index of the first match, 0 if none
FindById(orders, id) ==
    LET hits == {i \in 1..Len(orders) : orders[i].docId = id}
    IN IF hits = {} THEN 0 ELSE CHOOSE i \in hits : \A j \in hits : i <= j

\* AreDependenciesSatisfied comparing with the order's end, not its start
AreDependenciesSatisfied_AgainstEnd(workOrder, allWorkOrders) ==
    \A k \in 1..Len(workOrder.dependsOnWorkOrderIds) :
        LET d == FindById(allWorkOrders, workOrder.dependsOnWorkOrderIds[k])
        IN d # 0
           /\ ~(FromISO(allWorkOrders[d].endDate) > FromISO(workOrder.endDate))

AreDependenciesSatisfied(workOrder, allWorkOrders) ==
    \A k \in 1..Len(workOrder.dependsOnWorkOrderIds) :
        LET d == FindById(allWorkOrders, workOrder.dependsOnWorkOrderIds[k])
        IN d # 0
           /\ ~(FromISO(allWorkOrders[d].endDate) > FromISO(workOrder.startDate))

\* new Map(workOrders.map(wo => [wo.docId, wo])): a later entry replaces an
\* earlier one with the same key
WoMap(orders) ==
    [id \in {orders[i].docId : i \in 1..Len(orders)} |->
        orders[CHOOSE i \in 1..Len(orders) :
                  orders[i].docId = id
                  /\ \A j \in 1..Len(orders) : orders[j].docId = id => j <= i]]

\* dfs(woId, path) with the sets visited, recStack and the list errors it
\* closes over threaded through as st; DfsDeps is its for loop from the
\* k-th dependency on.
RECURSIVE Dfs(_, _, _, _), DfsDeps(_, _, _, _, _, _)
\* dfs that marks a node visited on entry and keeps no recursion stack
Dfs_NoRecStack(woId, path, st, woMap) ==
    IF woId \in st.visited THEN st
    ELSE IF woId \in DOMAIN woMap
    THEN DfsDeps(woMap[woId].dependsOnWorkOrderIds, 1, woId, path,
                 [st EXCEPT !.visited = @ \cup {woId}], woMap)
    ELSE [st EXCEPT !.visited = @ \cup {woId}]

\* dfs without the recStack.delete(woId) on the way out
Dfs_StackKept(woId, path, st, woMap) ==
    IF woId \in st.recStack
    THEN [st EXCEPT !.errors = Append(@, Append(path, woId))]
    ELSE IF woId \in st.visited THEN st
    ELSE LET entered == [st EXCEPT !.recStack = @ \cup {woId}]
             after == IF woId \in DOMAIN woMap
                      THEN DfsDeps(woMap[woId].dependsOnWorkOrderIds, 1, woId,
                                   path, entered, woMap)
                      ELSE entered
         IN [after EXCEPT !.visited = @ \cup {woId}]

Dfs(woId, path, st, woMap) ==
    IF woId \in st.recStack
    THEN [st EXCEPT !.errors = Append(@, Append(path, woId))]
    ELSE IF woId \in st.visited THEN st
    ELSE LET entered == [st EXCEPT !.recStack = @ \cup {woId}]
             after == IF woId \in DOMAIN woMap
                      THEN DfsDeps(woMap[woId].dependsOnWorkOrderIds, 1, woId,
                                   path, entered, woMap)
                      ELSE entered
         IN [after EXCEPT !.recStack = @ \ {woId}, !.visited = @ \cup {woId}]

DfsDeps(deps, k, woId, path, st, woMap) ==
    IF k > Len(deps) THEN st
    ELSE DfsDeps(deps, k + 1, woId, path,
                 Dfs(deps[k], Append(path, woId), st, woMap), woMap)

RECURSIVE DetectFrom(_, _, _, _)
DetectFrom(orders, i, st, woMap) ==
    IF i > Len(orders) THEN st
    ELSE DetectFrom(orders, i + 1,
                    IF orders[i].docId \notin st.visited
                    THEN Dfs(orders[i].docId, << >>, st, woMap) ELSE st,
                    woMap)

\* The error list: one entry per re-entered node, holding the path.
DetectCircularDependencies(orders) ==
    LET st == DetectFrom(orders, 1,
                         [visited |-> {}, recStack |-> {}, errors |-> << >>],
                         WoMap(orders))
    IN [k \in 1..Len(st.errors) |-> [kind |-> "circular", path |-> st.errors[k]]]

RECURSIVE Flatten(_)
Flatten(ss) == IF ss = << >> THEN << >> ELSE Head(ss) \o Flatten(Tail(ss))

FindWorkCenter(wcs, id) ==
    LET hits == {i \in 1..Len(wcs) : wcs[i].docId = id}
    IN IF hits = {} THEN 0 ELSE CHOOSE i \in hits : \A j \in hits : i <= j

\* IntersectsWindow seeing only an order that lies wholly inside the window
IntersectsWindow_Inside(wo, mw) ==
    FromISO(wo.startDate) >= FromISO(mw.startDate)
    /\ FromISO(wo.endDate) <= FromISO(mw.endDate)

\* woStart < mwEnd && woEnd > mwStart
IntersectsWindow(wo, mw) ==
    FromISO(wo.startDate) < FromISO(mw.endDate)
    /\ FromISO(wo.endDate) > FromISO(mw.startDate)

\* The errors validateSchedule pushes for one order of one center's list:
\* lines 116-118, 120-128 and, for the work center wcs[w] when found
\* (w # 0), one per maintenance window the order intersects (133-147).
OrderErrors(wo, orders, wcs) ==
    (IF ~AreDependenciesSatisfied(wo, orders)
     THEN << [kind |-> "dependencies", wo |-> wo.docId] >> ELSE << >>)
    \o (IF \E k \in 1..Len(orders) :
              orders[k].docId # wo.docId /\ HasWorkCenterConflict(wo, orders[k])
        THEN << [kind |-> "conflict", wo |-> wo.docId] >> ELSE << >>)
    \o (IF FindWorkCenter(wcs, wo.workCenterId) = 0 THEN << >>
        ELSE [k \in 1..Len(SelectSeq(
                      wcs[FindWorkCenter(wcs, wo.workCenterId)].maintenanceWindows,
                      LAMBDA mw : IntersectsWindow(wo, mw)))
              |-> [kind |-> "maintenance", wo |-> wo.docId]])

\* sched is the list of [key, orders] entries in key insertion order, the
\* orders given by value; the result is the errors list (valid iff empty).
ValidateSchedule(sched, wcs) ==
    Flatten([c \in 1..Len(sched) |->
        DetectCircularDependencies(sched[c].orders)
        \o Flatten([i \in 1..Len(sched[c].orders) |->
                       OrderErrors(sched[c].orders[i], sched[c].orders, wcs)])])

-----------------------------------------------------------------------------
(* reflow.service.ts: the helpers of ReflowService.  heap is the current   *)
(* value of every work-order object; a schedule is the list of             *)
(* [key, orders] entries of this.schedule in key insertion order, orders   *)
(* being object references (indices into heap).                            *)

Objs(heap, refs) == [k \in 1..Len(refs) |-> heap[refs[k]]]

EntryOf(sched, key) ==
    LET hits == {c \in 1..Len(sched) : sched[c].key = key}
    IN IF hits = {} THEN 0 ELSE CHOOSE c \in hits : TRUE

\* this.schedule[key], the empty list standing for undefined
ScheduleAt(sched, key) ==
    IF EntryOf(sched, key) = 0 THEN << >> ELSE sched[EntryOf(sched, key)].orders

\* if (!Object.hasOwn(this.schedule, key)) this.schedule[key] = []
EnsureKey(sched, key) ==
    IF EntryOf(sched, key) # 0 THEN sched
    ELSE Append(sched, [key |-> key, orders |-> << >>])

\* this.schedule[wcId]?.find(s => s.docId === id) is found
IsScheduled(sched, heap, wcId, id) ==
    FindById(Objs(heap, ScheduleAt(sched, wcId)), id) # 0

AddToWorkCenterSchedule(sched, heap, ref) ==
    LET wcId == heap[ref].workCenterId
        alreadyAdded == IsScheduled(sched, heap, wcId, heap[ref].docId)
    IN IF alreadyAdded THEN sched
       ELSE [sched EXCEPT ![EntryOf(sched, wcId)].orders = Append(@, ref)]

RECURSIVE LatestDependencyEnd(_, _, _, _)
LatestDependencyEnd(deps, k, latest, scheduledWorkOrders) ==
    IF k > Len(deps) THEN latest
    ELSE LET d == FindById(scheduledWorkOrders, deps[k])
             depEnd == FromISO(scheduledWorkOrders[d].endDate)
         IN LatestDependencyEnd(deps, k + 1,
                IF d # 0 /\ depEnd > latest THEN depEnd ELSE latest,
                scheduledWorkOrders)

GetEarliestStartAfterDependencies(workOrder, scheduledWorkOrders) ==
    ToISO(LatestDependencyEnd(workOrder.dependsOnWorkOrderIds, 1,
                              FromISO(workOrder.startDate), scheduledWorkOrders))

\* latestConflictEnd taken one hour past currentStart whatever the ends of
\* the conflicting orders are
MaxEnd_OneHour(orders, latest) ==
    IF orders = << >> THEN latest ELSE latest + 60

RECURSIVE MaxEnd(_, _)
MaxEnd(orders, latest) ==
    IF orders = << >> THEN latest
    ELSE MaxEnd(Tail(orders), Max(FromISO(Head(orders).endDate), latest))

\* resolveWorkCenterConflict: ResolveLoop tests the loop condition (and
\* throws after the loop), ResolveAttempt is a pass once proposedEnd is
\* computed, ResolveConflicts the rest of it once the conflicting orders
\* are known, ResolveMove the end of it once currentStart is moved.
RECURSIVE ResolveLoop(_, _, _, _, _), ResolveAttempt(_, _, _, _, _, _),
          ResolveConflicts(_, _, _, _, _, _), ResolveMove(_, _, _, _, _)
ResolveLoop(currentStart, attempts, workOrder, existingOrders, workCenter) ==
    IF attempts < MaxAttempts
    THEN ResolveAttempt(currentStart, attempts, workOrder, existingOrders, workCenter,
                        CalculateEndDateWithShifts(workOrder, workCenter))
    ELSE Threw("Could not resolve work center conflict")

ResolveAttempt(currentStart, attempts, workOrder, existingOrders, workCenter, proposedEnd) ==
    IF proposedEnd.err # "" THEN Threw(proposedEnd.err)
    ELSE ResolveConflicts(currentStart, attempts, workOrder, existingOrders, workCenter,
            SelectSeq(existingOrders, LAMBDA existing :
                HasWorkCenterConflict([workOrder EXCEPT !.startDate = currentStart,
                                                        !.endDate = proposedEnd.date],
                                      existing)))

ResolveConflicts(currentStart, attempts, workOrder, existingOrders, workCenter, conflictingOrders) ==
    IF Len(conflictingOrders) = 0 THEN Ok(currentStart)
    ELSE ResolveMove(attempts, workOrder, existingOrders, workCenter,
            GetNextAvailableTime(ToISO(MaxEnd(conflictingOrders, FromISO(currentStart))),
                                 workCenter))

ResolveMove(attempts, workOrder, existingOrders, workCenter, moved) ==
    IF moved.err # "" THEN Threw(moved.err)
    ELSE ResolveLoop(moved.date, attempts + 1, workOrder, existingOrders, workCenter)

ResolveWorkCenterConflict(proposedStart, workOrder, existingOrders, workCenter) ==
    ResolveLoop(proposedStart, 0, workOrder, existingOrders, workCenter)

\* The values currentStart takes in the passes of the resolver's loop, in
\* order: ResolveCandidates is the loop from one pass on, CandidatesFrom,
\* CandidatesAmong and CandidatesMoved the stages of a pass as in
\* ResolveAttempt, ResolveConflicts and ResolveMove.
RECURSIVE ResolveCandidates(_, _, _, _, _), CandidatesFrom(_, _, _, _, _, _),
          CandidatesAmong(_, _, _, _, _, _), CandidatesMoved(_, _, _, _, _, _)
ResolveCandidates(currentStart, attempts, workOrder, existingOrders, workCenter) ==
    IF attempts < MaxAttempts
    THEN CandidatesFrom(currentStart, attempts, workOrder, existingOrders, workCenter,
                        CalculateEndDateWithShifts(workOrder, workCenter))
    ELSE << >>

CandidatesFrom(currentStart, attempts, workOrder, existingOrders, workCenter, proposedEnd) ==
    IF proposedEnd.err # "" THEN << currentStart >>
    ELSE CandidatesAmong(currentStart, attempts, workOrder, existingOrders, workCenter,
            SelectSeq(existingOrders, LAMBDA existing :
                HasWorkCenterConflict([workOrder EXCEPT !.startDate = currentStart,
                                                        !.endDate = proposedEnd.date],
                                      existing)))

CandidatesAmong(currentStart, attempts, workOrder, existingOrders, workCenter, conflictingOrders) ==
    IF Len(conflictingOrders) = 0 THEN << currentStart >>
    ELSE CandidatesMoved(currentStart, attempts, workOrder, existingOrders, workCenter,
            GetNextAvailableTime(ToISO(MaxEnd(conflictingOrders, FromISO(currentStart))),
                                 workCenter))

CandidatesMoved(currentStart, attempts, workOrder, existingOrders, workCenter, moved) ==
    IF moved.err # "" THEN << currentStart >>
    ELSE << currentStart >>
         \o ResolveCandidates(moved.date, attempts + 1, workOrder, existingOrders,
                              workCenter)

\* Lines 194-202 of findEarliestStartTime, once getNextAvailableTime has
\* answered.
ResolveFrom(inShift, workOrder, workCenterSchedule, workCenter) ==
    IF inShift.err # "" THEN Threw(inShift.err)
    ELSE ResolveWorkCenterConflict(inShift.date, workOrder, workCenterSchedule,
                                   workCenter)

\* Lines 182-202 of findEarliestStartTime, once the work center is found.
EarliestOn(workOrder, workCenterSchedule, workCenter) ==
    ResolveFrom(GetNextAvailableTime(
                    GetEarliestStartAfterDependencies(workOrder, workCenterSchedule),
                    workCenter),
                workOrder, workCenterSchedule, workCenter)

\* wcSchedules is this.workCenterSchedules.
FindEarliestStartTime(workOrder, heap, wcs, wcSchedules) ==
    IF FindWorkCenter(wcs, workOrder.workCenterId) = 0
    THEN Threw("Work center not found")
    ELSE EarliestOn(workOrder, Objs(heap, wcSchedules[workOrder.workCenterId]),
                    wcs[FindWorkCenter(wcs, workOrder.workCenterId)])

\* The reasons determineChangeReason joins with "; ", as a list: delayed
\* are the ids of lines 297-309, sameWcOrders the orders of lines 312-314.
ReasonsOf(delayed, sameWcOrders) ==
    IF Len(delayed) > 0
    THEN [k \in 1..Len(delayed) |-> [kind |-> "Dependency delayed", dep |-> delayed[k]]]
    ELSE IF Len(sameWcOrders) > 0
    THEN << [kind |-> "Work center conflict", dep |-> 0] >>
    ELSE << [kind |-> "Shift or maintenance constraint", dep |-> 0] >>

DetermineChangeReason(newWo, oldWo, allWorkOrders) ==
    ReasonsOf(
        SelectSeq(newWo.dependsOnWorkOrderIds, LAMBDA depId :
            FindById(allWorkOrders, depId) # 0
            /\ FromISO(allWorkOrders[FindById(allWorkOrders, depId)].endDate)
                 > FromISO(oldWo.startDate)),
        SelectSeq(allWorkOrders, LAMBDA wo :
            wo.workCenterId = newWo.workCenterId /\ wo.docId # newWo.docId))

\* The schedule handed to validateSchedule: the objects, by value.
ScheduleValues(sched, heap) ==
    [c \in 1..Len(sched) |-> [key |-> sched[c].key, orders |-> Objs(heap, sched[c].orders)]]

\* this.workOrders.filter(wo => wo.data.workCenterId === wc.docId), per center
BuildWorkCenterSchedules(wcs, heap) ==
    [id \in {wcs[w].docId : w \in 1..Len(wcs)} |->
        SelectSeq([i \in 1..Len(heap) |-> i], LAMBDA i : heap[i].workCenterId = id)]

-----------------------------------------------------------------------------
(* ReflowService.reflow(), one action per exit before the loop, per way a  *)
(* pass of the while loop ends, and per exit after it.                     *)

NoResult ==
    [returned |-> FALSE, threw |-> "", success |-> FALSE,
     updatedWorkOrders |-> << >>, changes |-> << >>,
     explanation |-> "", errors |-> << >>]

Returned(success, updated, chg, explanation, errors) ==
    [returned |-> TRUE, threw |-> "", success |-> success,
     updatedWorkOrders |-> updated, changes |-> chg,
     explanation |-> explanation, errors |-> errors]

Thrown(e) == [NoResult EXCEPT !.threw = e]

\* lines 23-30
ReflowEmpty ==
    /\ pc = "start"
    /\ Len(workOrders) = 0
    /\ workCenterSchedules' = BuildWorkCenterSchedules(workCenters, workOrders)
    /\ result' = Returned(FALSE, << >>, << >>, "no work orders were passed", << >>)
    /\ pc' = "done"
    /\ UNCHANGED << workCenters, workOrders, inputOrders, schedule, changes,
                    workingOrders, processedCount, run >>

\* lines 32-42
ReflowCircular ==
    /\ pc = "start"
    /\ Len(workOrders) # 0
    /\ Len(DetectCircularDependencies(workOrders)) > 0
    /\ workCenterSchedules' = BuildWorkCenterSchedules(workCenters, workOrders)
    /\ result' = Returned(FALSE, << >>, << >>, "circular dependencies detected",
                          DetectCircularDependencies(workOrders))
    /\ pc' = "done"
    /\ UNCHANGED << workCenters, workOrders, inputOrders, schedule, changes,
                    workingOrders, processedCount, run >>

\* lines 44-47
ReflowBegin ==
    /\ pc = "start"
    /\ Len(workOrders) # 0
    /\ Len(DetectCircularDependencies(workOrders)) = 0
    /\ workCenterSchedules' = BuildWorkCenterSchedules(workCenters, workOrders)
    /\ workingOrders' = [i \in 1..Len(workOrders) |-> i]
    /\ processedCount' = 0
    /\ pc' = "loop"
    /\ UNCHANGED << workCenters, workOrders, inputOrders, schedule, changes,
                    result, run >>

MaxIterations == Len(workOrders) * IterationsPerOrder

LoopRuns == pc = "loop" /\ Len(workingOrders) > 0 /\ processedCount < MaxIterations

\* The order taken from the head of the queue and the schedule after the
\* key of its work center has been created (lines 53-68).
Order == workingOrders[1]

Keyed == EnsureKey(schedule, workOrders[Order].workCenterId)

HasBeenProcessed ==
    IsScheduled(Keyed, workOrders, workOrders[Order].workCenterId, workOrders[Order].docId)

\* The dependencies of the head order not found in its center's schedule.
Unprocessed ==
    SelectSeq(workOrders[Order].dependsOnWorkOrderIds, LAMBDA depId :
        ~IsScheduled(Keyed, workOrders, workOrders[Order].workCenterId, depId))

DependencyMissing == \E k \in 1..Len(Unprocessed) : FindById(workOrders, Unprocessed[k]) = 0

UnprocessedDependencies == [k \in 1..Len(Unprocessed) |-> FindById(workOrders, Unprocessed[k])]

\* Requeue without the push of the deferred order
Requeue_Dropped(queue, unprocessedDependencies, order) ==
    unprocessedDependencies \o queue

\* workingOrders.unshift(...unprocessedDependencies); workingOrders.push(order)
Requeue(queue, unprocessedDependencies, order) ==
    unprocessedDependencies \o queue \o << order >>

\* IsPinned with the test of line 111 left out
IsPinned_Never(workOrder) == FALSE

\* if (order.data.isMaintenance)
IsPinned(workOrder) == workOrder.isMaintenance

\* lines 70-74
IterSkip ==
    /\ LoopRuns
    /\ HasBeenProcessed
    /\ processedCount' = processedCount + 1
    /\ workingOrders' = Tail(workingOrders)
    /\ schedule' = Keyed
    /\ UNCHANGED << workCenters, workOrders, inputOrders, workCenterSchedules,
                    changes, pc, result, run >>

\* lines 76-98, the throw of line 95
IterDependencyMissing ==
    /\ LoopRuns
    /\ ~HasBeenProcessed
    /\ DependencyMissing
    /\ processedCount' = processedCount + 1
    /\ workingOrders' = Tail(workingOrders)
    /\ schedule' = Keyed
    /\ result' = Thrown("Dependency not found")
    /\ pc' = "done"
    /\ UNCHANGED << workCenters, workOrders, inputOrders, workCenterSchedules,
                    changes, run >>

\* lines 100-107
IterDefer ==
    /\ LoopRuns
    /\ ~HasBeenProcessed
    /\ ~DependencyMissing
    /\ Len(Unprocessed) > 0
    /\ processedCount' = processedCount + 1
    /\ workingOrders' = Requeue(Tail(workingOrders), UnprocessedDependencies, Order)
    /\ schedule' = Keyed
    /\ UNCHANGED << workCenters, workOrders, inputOrders, workCenterSchedules,
                    changes, pc, result, run >>

Placeable == LoopRuns /\ ~HasBeenProcessed /\ Len(Unprocessed) = 0

\* lines 110-114
IterMaintenance ==
    /\ Placeable
    /\ IsPinned(workOrders[Order])
    /\ processedCount' = processedCount + 1
    /\ workingOrders' = Tail(workingOrders)
    /\ schedule' = AddToWorkCenterSchedule(Keyed, workOrders, Order)
    /\ UNCHANGED << workCenters, workOrders, inputOrders, workCenterSchedules,
                    changes, pc, result, run >>

Placement == FindEarliestStartTime(workOrders[Order], workOrders, workCenters,
                                   workCenterSchedules)

\* lines 116-124 when the work center is missing or a helper throws
IterThrow ==
    /\ Placeable
    /\ ~IsPinned(workOrders[Order])
    /\ Placement.err # ""
    /\ processedCount' = processedCount + 1
    /\ workingOrders' = Tail(workingOrders)
    /\ schedule' = Keyed
    /\ result' = Thrown(Placement.err)
    /\ pc' = "done"
    /\ UNCHANGED << workCenters, workOrders, inputOrders, workCenterSchedules,
                    changes, run >>

\* Lines 126-145: the order's object is rewritten, added to the schedule
\* of its work center, and a change is recorded if a date string differs.
PlaceOrder(ref, originalOrder, newStartDate, newEndDate) ==
    /\ workOrders' = [workOrders EXCEPT ![ref].startDate = newStartDate,
                                        ![ref].endDate = newEndDate]
    /\ schedule' = AddToWorkCenterSchedule(Keyed, workOrders', ref)
    /\ changes' =
         IF originalOrder.startDate # newStartDate
            \/ originalOrder.endDate # newEndDate
         THEN Append(changes,
                [workOrderId |-> originalOrder.docId,
                 oldStart |-> originalOrder.startDate,
                 oldEnd |-> originalOrder.endDate,
                 newStart |-> newStartDate,
                 newEnd |-> newEndDate,
                 delayMinutes |-> Max(0, GetMinutesDiff(originalOrder.endDate, newEndDate)),
                 reason |-> DetermineChangeReason(workOrders'[ref], originalOrder,
                               Objs(workOrders',
                                    ScheduleAt(schedule', originalOrder.workCenterId)))])
         ELSE changes

\* lines 116-145
IterPlace ==
    /\ Placeable
    /\ ~IsPinned(workOrders[Order])
    /\ Placement.err = ""
    /\ PlaceOrder(Order, workOrders[Order], Placement.date,
                  CalculateEndDateWithShifts(workOrders[Order],
                      workCenters[FindWorkCenter(workCenters,
                                                 workOrders[Order].workCenterId)]).date)
    /\ processedCount' = processedCount + 1
    /\ workingOrders' = Tail(workingOrders)
    /\ UNCHANGED << workCenters, inputOrders, workCenterSchedules, pc, result, run >>

LoopOver == pc = "loop" /\ ~(Len(workingOrders) > 0 /\ processedCount < MaxIterations)

\* lines 149-157
FinishCapped ==
    /\ LoopOver
    /\ processedCount >= MaxIterations
    /\ result' = Returned(FALSE, << >>, << >>, "Max iterations reached",
                          << [kind |-> "Processing exceeded maximum iterations"] >>)
    /\ pc' = "done"
    /\ UNCHANGED << workCenters, workOrders, inputOrders, workCenterSchedules,
                    schedule, changes, workingOrders, processedCount, run >>

\* The result of lines 162-168 for the validator's errors.
Validated(errors) ==
    Returned(Len(errors) = 0, schedule, changes,
             IF Len(errors) # 0 THEN "Schedule validation failed"
             ELSE IF Len(changes) = 0 THEN "No changes required"
             ELSE "Rescheduled",
             errors)

\* lines 159-168
FinishValidate ==
    /\ LoopOver
    /\ processedCount < MaxIterations
    /\ result' = Validated(ValidateSchedule(ScheduleValues(schedule, workOrders),
                                            workCenters))
    /\ pc' = "done"
    /\ UNCHANGED << workCenters, workOrders, inputOrders, workCenterSchedules,
                    schedule, changes, workingOrders, processedCount, run >>

Next ==
    \/ ReflowEmpty
    \/ ReflowCircular
    \/ ReflowBegin
    \/ IterSkip
    \/ IterDependencyMissing
    \/ IterDefer
    \/ IterMaintenance
    \/ IterThrow
    \/ IterPlace
    \/ FinishCapped
    \/ FinishValidate

\* A second, fresh ReflowService over the same work centers, given the
\* orders of the schedule the first call returned with success = true.
Rerun ==
    /\ pc = "done"
    /\ run = 1
    /\ result.returned
    /\ result.success
    /\ Len(result.updatedWorkOrders) > 0
    /\ LET output == Flatten([c \in 1..Len(result.updatedWorkOrders) |->
                        Objs(workOrders, result.updatedWorkOrders[c].orders)])
       IN /\ workOrders' = output
          /\ inputOrders' = output
    /\ workCenterSchedules' = [id \in {} |-> << >>]
    /\ schedule' = << >>
    /\ changes' = << >>
    /\ workingOrders' = << >>
    /\ processedCount' = 0
    /\ pc' = "start"
    /\ result' = NoResult
    /\ run' = 2
    /\ UNCHANGED workCenters

NextTwice == Next \/ Rerun

-----------------------------------------------------------------------------
(* Inputs: the arguments of new ReflowService(workCenters, workOrders).    *)

Date(t, canon) == [t |-> t, canon |-> canon]

\* Monday 14:00 + k hours
Slot(k) == 14 * 60 + k * 60

WorkOrder(id, wc, start, end, duration, pinned, deps, canon) ==
    [docId |-> id, workCenterId |-> wc,
     startDate |-> Date(start, canon), endDate |-> Date(end, canon),
     durationMinutes |-> duration, isMaintenance |-> pinned,
     dependsOnWorkOrderIds |-> deps]

Shifts(firstDay, lastDay) ==
    [k \in 1..(lastDay - firstDay + 1) |->
        [dayOfWeek |-> firstDay + k - 1, startHour |-> 8, endHour |-> 16]]

\* Monday to Friday 08-16; the same with Monday 15:00-16:00 blocked; no
\* shift on any weekday; Tuesday to Friday 08-16
Calendars ==
    { [shifts |-> Shifts(1, 5), maintenanceWindows |-> << >>],
      [shifts |-> Shifts(1, 5),
       maintenanceWindows |-> << [startDate |-> Date(Slot(1), TRUE),
                                  endDate |-> Date(Slot(2), TRUE)] >>],
      [shifts |-> << >>, maintenanceWindows |-> << >>],
      [shifts |-> Shifts(2, 5), maintenanceWindows |-> << >>] }

WorkCenters(n, cal) ==
    [w \in 1..n |-> [docId |-> w, shifts |-> cal.shifts,
                     maintenanceWindows |-> cal.maintenanceWindows]]

\* Orders without dependencies, every start, end, duration and pin
TimedOrders(id, wcIds, canon) ==
    { WorkOrder(id, wc, Slot(k), Slot(k) + e * 60, d * 60, pinned, << >>, canon) :
        wc \in wcIds, k \in 0..MaxSlot, e \in 0..MaxHours, d \in 0..MaxHours,
        pinned \in BOOLEAN }

\* Dependency lists of at most one id; id MaxOrders + 1 names no order
DepLists == { << >> } \cup { << d >> : d \in 1..(MaxOrders + 1) }

\* One-hour orders at Monday 15:00 with every dependency list, machine, pin
LinkedOrders(id) ==
    { WorkOrder(id, wc, Slot(1), Slot(1) + 60, 60, pinned, deps, TRUE) :
        wc \in 1..2, pinned \in BOOLEAN, deps \in DepLists }

Fresh(wcs, orders) ==
    /\ workCenters = wcs
    /\ workOrders = orders
    /\ inputOrders = orders
    /\ workCenterSchedules = [id \in {} |-> << >>]
    /\ schedule = << >>
    /\ changes = << >>
    /\ workingOrders = << >>
    /\ processedCount = 0
    /\ pc = "start"
    /\ result = NoResult
    /\ run = 1

InitEmpty == \E cal \in Calendars : Fresh(WorkCenters(1, cal), << >>)

\* one order, on a known or an unknown work center, in either spelling
InitSingle ==
    \E cal \in Calendars, n \in 1..2, canon \in BOOLEAN :
        \E o \in TimedOrders(1, 1..2, canon) :
            Fresh(WorkCenters(n, cal), << o >>)

\* two orders without dependencies on two known work centers
InitPair ==
    \E cal \in Calendars :
        \E o1 \in TimedOrders(1, {1}, TRUE), o2 \in TimedOrders(2, 1..2, TRUE) :
            Fresh(WorkCenters(2, cal), << o1, o2 >>)

\* MaxOrders orders linked by dependencies
InitLinked ==
    \E os \in [1..MaxOrders -> UNION {LinkedOrders(i) : i \in 1..MaxOrders}] :
        /\ \A i \in 1..MaxOrders : os[i].docId = i
        /\ Fresh(WorkCenters(2, CHOOSE cal \in Calendars :
                                   Len(cal.shifts) = 5 /\ cal.maintenanceWindows = << >>),
                 os)

\* three one-hour orders at Monday 15:00, one of which depends on the other
\* two, in either order of its dependsOn list
InitFan ==
    \E d \in 1..3, wc \in [1..3 -> 1..2], pinned \in BOOLEAN :
        \E a \in (1..3) \ {d}, b \in (1..3) \ {d} :
            /\ a # b
            /\ Fresh(WorkCenters(2, CHOOSE cal \in Calendars :
                                       Len(cal.shifts) = 5 /\ cal.maintenanceWindows = << >>),
                     [i \in 1..3 |->
                        WorkOrder(i, wc[i], Slot(1), Slot(1) + 60, 60, i = d /\ pinned,
                                  IF i = d THEN << a, b >> ELSE << >>, TRUE)])

Init == InitEmpty \/ InitSingle \/ InitPair \/ InitLinked \/ InitFan

Spec == Init /\ [][Next]_vars

\* The same with the second call, from the empty, single and linked inputs
InitTwice == InitEmpty \/ InitSingle \/ InitLinked

SpecTwice == InitTwice /\ [][NextTwice]_vars

-----------------------------------------------------------------------------
(* Vocabulary of the properties.                                           *)

Done == pc = "done"

Success == Done /\ result.returned /\ result.success

\* The positions <<c, k>> of the returned schedule and the order at each
Positions ==
    {<<c, k>> : c \in 1..Len(result.updatedWorkOrders), k \in 1..Len(workOrders)} \cap
    {p \in (1..Len(result.updatedWorkOrders)) \X (1..Len(workOrders)) :
        p[2] <= Len(result.updatedWorkOrders[p[1]].orders)}

PlacedAt(p) == workOrders[result.updatedWorkOrders[p[1]].orders[p[2]]]

KeyAt(p) == result.updatedWorkOrders[p[1]].key

StartOf(o) == FromISO(o.startDate)

EndOf(o) == FromISO(o.endDate)

\* Proper overlap of the input intervals of two input orders on one machine
InputsCollide(i, j) ==
    /\ inputOrders[i].workCenterId = inputOrders[j].workCenterId
    /\ StartOf(inputOrders[i]) < EndOf(inputOrders[j])
    /\ StartOf(inputOrders[j]) < EndOf(inputOrders[i])

-----------------------------------------------------------------------------
\* C1: whenever reflow returns success = true, any two distinct orders placed
\* in the schedule of one work center satisfy a.end <= b.start or
\* b.end <= a.start.
C1_NoMachineOverlap ==
    Success =>
        \A p \in Positions, q \in Positions :
            (p[1] = q[1] /\ p[2] # q[2]) =>
                \/ EndOf(PlacedAt(p)) <= StartOf(PlacedAt(q))
                \/ EndOf(PlacedAt(q)) <= StartOf(PlacedAt(p))

\* A successful result with two orders on one machine whose input intervals
\* overlapped.
C1_Witness ==
    /\ Success
    /\ \E p \in Positions, q \in Positions :
          /\ p[1] = q[1] /\ p[2] # q[2]
          /\ InputsCollide(result.updatedWorkOrders[p[1]].orders[p[2]],
                           result.updatedWorkOrders[q[1]].orders[q[2]])

\* C2: whenever reflow returns success = true, every dependency d of every
\* placed order o is placed and d.end <= o.start in the returned schedule.
C2_DependenciesFinishFirst ==
    Success =>
        \A p \in Positions :
            \A k \in 1..Len(PlacedAt(p).dependsOnWorkOrderIds) :
                \E q \in Positions :
                    /\ PlacedAt(q).docId = PlacedAt(p).dependsOnWorkOrderIds[k]
                    /\ EndOf(PlacedAt(q)) <= StartOf(PlacedAt(p))

\* A successful result holding an order with a dependency that, in the
\* input, ended after the order's start.
C2_Witness ==
    /\ Success
    /\ \E i \in 1..Len(inputOrders), j \in 1..Len(inputOrders) :
          /\ Len(inputOrders[i].dependsOnWorkOrderIds) > 0
          /\ inputOrders[i].dependsOnWorkOrderIds[1] = inputOrders[j].docId
          /\ EndOf(inputOrders[j]) > StartOf(inputOrders[i])
          /\ \E p \in Positions : PlacedAt(p).docId = inputOrders[i].docId

\* C3: whenever reflow returns success = true, no placed order, pinned or
\* not, intersects a maintenance window of its work center.
C3_NoMaintenanceOverlap ==
    Success =>
        \A p \in Positions :
            \A w \in 1..Len(workCenters) :
                workCenters[w].docId = PlacedAt(p).workCenterId =>
                    \A m \in 1..Len(workCenters[w].maintenanceWindows) :
                        \/ EndOf(PlacedAt(p))
                             <= FromISO(workCenters[w].maintenanceWindows[m].startDate)
                        \/ StartOf(PlacedAt(p))
                             >= FromISO(workCenters[w].maintenanceWindows[m].endDate)

\* A successful result in which an order that was moved and a pinned order
\* sit on a work center that has a maintenance window.
C3_Witness ==
    /\ Success
    /\ Len(result.changes) > 0
    /\ \E p \in Positions, q \in Positions :
          /\ PlacedAt(p).isMaintenance
          /\ ~PlacedAt(q).isMaintenance
          /\ \E w \in 1..Len(workCenters) :
                /\ workCenters[w].docId = PlacedAt(p).workCenterId
                /\ workCenters[w].docId = PlacedAt(q).workCenterId
                /\ Len(workCenters[w].maintenanceWindows) > 0

\* The ids of the input orders are pairwise distinct
DistinctIds ==
    \A i \in 1..Len(inputOrders), j \in 1..Len(inputOrders) :
        inputOrders[i].docId = inputOrders[j].docId => i = j

\* C4: whenever reflow returns success = true on orders with pairwise
\* distinct ids, every input order appears exactly once in updatedWorkOrders,
\* under the key of its own work center, and nothing else appears.
C4_EveryOrderOnce ==
    (Success /\ DistinctIds) =>
        /\ \A i \in 1..Len(inputOrders) :
              /\ Cardinality({p \in Positions :
                                 PlacedAt(p).docId = inputOrders[i].docId}) = 1
              /\ \A p \in Positions :
                    PlacedAt(p).docId = inputOrders[i].docId =>
                        KeyAt(p) = inputOrders[i].workCenterId
        /\ \A p \in Positions :
              \E i \in 1..Len(inputOrders) : PlacedAt(p).docId = inputOrders[i].docId

\* A successful result reached after an order was deferred behind its
\* dependency and taken from the queue again.
C4_Witness ==
    /\ Success
    /\ Len(inputOrders) >= 2
    /\ processedCount > Len(inputOrders)

\* C5: a pinned order is never moved: in every state of reflow its start and
\* end are the input strings, so they are in any returned schedule, and no
\* Change names it.
C5_PinnedNeverMoved ==
    \A i \in 1..Len(inputOrders) :
        inputOrders[i].isMaintenance =>
            /\ workOrders[i].startDate = inputOrders[i].startDate
            /\ workOrders[i].endDate = inputOrders[i].endDate
            /\ \A k \in 1..Len(changes) :
                  changes[k].workOrderId # inputOrders[i].docId
            /\ \A k \in 1..Len(result.changes) :
                  result.changes[k].workOrderId # inputOrders[i].docId

\* A returned schedule that holds a pinned order whose input interval
\* overlapped that of another order on its machine, which was moved.
C5_Witness ==
    /\ Done
    /\ result.returned
    /\ Len(result.changes) > 0
    /\ \E p \in Positions, j \in 1..Len(inputOrders) :
          /\ PlacedAt(p).isMaintenance
          /\ ~inputOrders[j].isMaintenance
          /\ InputsCollide(result.updatedWorkOrders[p[1]].orders[p[2]], j)

-----------------------------------------------------------------------------
(* The dependency graph of the input and what makes an input valid.        *)

Ids == 1..Len(inputOrders)

\* The input orders that input order i names in dependsOn
DepsOf(i) ==
    {j \in Ids : \E k \in 1..Len(inputOrders[i].dependsOnWorkOrderIds) :
                    inputOrders[i].dependsOnWorkOrderIds[k] = inputOrders[j].docId}

RECURSIVE Closure(_)
Closure(S) ==
    IF UNION {DepsOf(i) : i \in S} \subseteq S THEN S
    ELSE Closure(S \cup UNION {DepsOf(i) : i \in S})

InputCyclic == \E i \in Ids : i \in Closure(DepsOf(i))

\* t lies in the shift of its weekday and in no maintenance window
WorkingInstant(t, workCenter) ==
    /\ GetShiftForDay(Weekday(t) % DaysPerWeek, workCenter) # NoShift
    /\ SetHour(t, GetShiftForDay(Weekday(t) % DaysPerWeek, workCenter).startHour) <= t
    /\ t < SetHour(t, GetShiftForDay(Weekday(t) % DaysPerWeek, workCenter).endHour)
    /\ ~IsInMaintenanceWindow(ToISO(t), workCenter)

WorkCenterOf(o) == workCenters[FindWorkCenter(workCenters, o.workCenterId)]

InputValid ==
    /\ Len(inputOrders) > 0
    /\ ~InputCyclic
    /\ \A i \in Ids :
          /\ FindWorkCenter(workCenters, inputOrders[i].workCenterId) # 0
          /\ ~inputOrders[i].isMaintenance =>
                /\ WorkingInstant(StartOf(inputOrders[i]), WorkCenterOf(inputOrders[i]))
                /\ CalculateEndDateWithShifts(inputOrders[i], WorkCenterOf(inputOrders[i]))
                      = Ok(ToISO(EndOf(inputOrders[i])))
          /\ \A j \in Ids \ {i} :
                inputOrders[i].workCenterId = inputOrders[j].workCenterId =>
                    \/ EndOf(inputOrders[i]) <= StartOf(inputOrders[j])
                    \/ EndOf(inputOrders[j]) <= StartOf(inputOrders[i])
          /\ \A k \in 1..Len(inputOrders[i].dependsOnWorkOrderIds) :
                \E j \in Ids :
                    /\ inputOrders[j].docId = inputOrders[i].dependsOnWorkOrderIds[k]
                    /\ EndOf(inputOrders[j]) <= StartOf(inputOrders[i])
          /\ \A m \in 1..Len(WorkCenterOf(inputOrders[i]).maintenanceWindows) :
                ~IntersectsWindow(inputOrders[i],
                                  WorkCenterOf(inputOrders[i]).maintenanceWindows[m])

\* Every date string of the input is spelled the way toISO() spells it
InputCanonical ==
    \A i \in Ids : inputOrders[i].startDate.canon /\ inputOrders[i].endDate.canon

\* C6: on an already valid input schedule reflow returns success = true
\* with changes = [] and every order at its input start and end.  (Stated
\* for inputs whose date strings are already in toISO()'s spelling, so that
\* a change can only come from a moved instant.)
C6_ValidInputUnchanged ==
    (Done /\ run = 1 /\ InputValid /\ InputCanonical) =>
        /\ result.returned
        /\ result.success
        /\ result.changes = << >>
        /\ \A i \in Ids :
              /\ StartOf(workOrders[i]) = StartOf(inputOrders[i])
              /\ EndOf(workOrders[i]) = EndOf(inputOrders[i])

\* C7: reflow is idempotent on its own output: the second call, given the
\* orders the first call returned, records no change.
C7_SecondCallChangesNothing ==
    (Done /\ run = 2 /\ result.returned) => result.changes = << >>

\* The two input orders have no dependency, are not pinned, sit on the same
\* known machine and hold the same interval [start, start + duration), which
\* is not empty and lies inside one shift
SameSlotPair ==
    /\ Len(inputOrders) = 2
    /\ \A i \in Ids :
          /\ ~inputOrders[i].isMaintenance
          /\ inputOrders[i].dependsOnWorkOrderIds = << >>
          /\ inputOrders[i].workCenterId = inputOrders[1].workCenterId
          /\ FindWorkCenter(workCenters, inputOrders[i].workCenterId) # 0
          /\ inputOrders[i].startDate = inputOrders[1].startDate
          /\ inputOrders[i].endDate = inputOrders[1].endDate
          /\ inputOrders[i].durationMinutes > 0
          /\ EndOf(inputOrders[i]) = StartOf(inputOrders[i]) + inputOrders[i].durationMinutes
          /\ WorkingInstant(StartOf(inputOrders[i]), WorkCenterOf(inputOrders[i]))
          /\ WorkingInstant(EndOf(inputOrders[i]) - 1, WorkCenterOf(inputOrders[i]))
          /\ StartOfDay(StartOf(inputOrders[i])) = StartOfDay(EndOf(inputOrders[i]))
          /\ WorkCenterOf(inputOrders[i]).maintenanceWindows = << >>

\* C8: of two orders colliding in the same slot the first keeps its start
\* and end, the second is placed from the first one's end for its duration,
\* and changes holds exactly one entry, for the second.
C8_SecondMovesBehindFirst ==
    (Done /\ run = 1 /\ SameSlotPair) =>
        /\ result.returned
        /\ StartOf(workOrders[1]) = StartOf(inputOrders[1])
        /\ EndOf(workOrders[1]) = EndOf(inputOrders[1])
        /\ StartOf(workOrders[2]) = EndOf(workOrders[1])
        /\ EndOf(workOrders[2]) = StartOf(workOrders[2]) + workOrders[2].durationMinutes
        /\ Len(result.changes) = 1
        /\ result.changes[1].workOrderId = inputOrders[2].docId

\* C9: with a cycle in the dependency graph of the input (a self-dependency
\* included) no order is ever placed or rewritten, and reflow returns
\* success = false with errors, an empty updatedWorkOrders and no changes.
C9_CycleRejected ==
    InputCyclic =>
        /\ workOrders = inputOrders
        /\ \A c \in 1..Len(schedule) : schedule[c].orders = << >>
        /\ changes = << >>
        /\ Done =>
              /\ result.returned
              /\ ~result.success
              /\ Len(result.errors) > 0
              /\ result.updatedWorkOrders = << >>
              /\ result.changes = << >>

\* reflow has returned on an input with a self-dependent order beside an
\* order that has no dependency and is not pinned.
C9_Witness ==
    /\ Done
    /\ InputCyclic
    /\ \E i \in Ids, j \in Ids :
          /\ i \in DepsOf(i)
          /\ inputOrders[j].dependsOnWorkOrderIds = << >>
          /\ ~inputOrders[j].isMaintenance

\* C10: every reflow ends with a result or with the error one of its caps
\* reports (the driver's, the resolver's, projectEnd's), getNextAvailableTime
\* needing at most 7 day jumps: it never recurses until the stack is gone.
C10_EndsAtACap ==
    Done =>
        \/ result.returned
        \/ result.threw \in {"Infinite loop detected in date calculation",
                             "Could not resolve work center conflict",
                             "Dependency not found",
                             "Work center not found"}

\* The input orders whose workCenterId names none of the input work centers
UnknownCenterOrders ==
    {i \in Ids : FindWorkCenter(workCenters, inputOrders[i].workCenterId) = 0}

\* The orders (heap indices) of the schedule a returned result carries
ReturnedOrders ==
    UNION {{result.updatedWorkOrders[c].orders[k] :
                k \in 1..Len(result.updatedWorkOrders[c].orders)} :
           c \in 1..Len(result.updatedWorkOrders)}

\* C11: when an input order, pinned or not, names a work center that is not
\* among the input work centers, reflow fails and returns no schedule that
\* holds that order.
C11_UnknownMachineFatal ==
    (Done /\ run = 1 /\ UnknownCenterOrders # {}) =>
        /\ ~(result.returned /\ result.success)
        /\ UnknownCenterOrders \cap ReturnedOrders = {}

\* The orders (heap indices) this.schedule holds
ScheduledRefs ==
    UNION {{schedule[c].orders[k] : k \in 1..Len(schedule[c].orders)} :
           c \in 1..Len(schedule)}

\* projectEnd from the instant t for the order o on its work center
ProjectEndFrom(o, t) ==
    CalculateEndDateWithShifts([o EXCEPT !.startDate = ToISO(t)], WorkCenterOf(o))

\* C12: for every non-pinned order the driver has placed, the end it wrote
\* is projectEnd(newStart, durationMinutes, wc) for the start it wrote.
C12_EndProjectedFromNewStart ==
    \A r \in ScheduledRefs :
        (~workOrders[r].isMaintenance
         /\ ProjectEndFrom(workOrders[r], StartOf(workOrders[r])).err = "") =>
            EndOf(workOrders[r])
              = FromISO(ProjectEndFrom(workOrders[r], StartOf(workOrders[r])).date)

\* The head order is about to be placed by findEarliestStartTime
Placing ==
    /\ Placeable
    /\ ~IsPinned(workOrders[Order])
    /\ FindWorkCenter(workCenters, workOrders[Order].workCenterId) # 0

\* The start findEarliestStartTime proposes to the resolver (line 192)
ProposedStart ==
    GetNextAvailableTime(
        GetEarliestStartAfterDependencies(workOrders[Order],
            Objs(workOrders, workCenterSchedules[workOrders[Order].workCenterId])),
        WorkCenterOf(workOrders[Order]))

\* The head order at start t with its projected end overlaps an order that
\* is placed on its work center
OverlapsPlaced(t) ==
    \E r \in ScheduledRefs :
        HasWorkCenterConflict(
            [workOrders[Order] EXCEPT !.startDate = ToISO(t),
                                      !.endDate = ProjectEndFrom(workOrders[Order], t).date],
            workOrders[r])

\* C13: the resolver tests the candidate interval against the orders placed
\* on the work center only: it returns the proposed start when no placed
\* order overlaps it, and the start it returns overlaps no placed order.
C13_ResolverSeesPlacedOnly ==
    (Placing /\ ProposedStart.err = "" /\ Placement.err = "") =>
        /\ (ProjectEndFrom(workOrders[Order], FromISO(ProposedStart.date)).err = ""
            /\ ~OverlapsPlaced(FromISO(ProposedStart.date)))
              => FromISO(Placement.date) = FromISO(ProposedStart.date)
        /\ ProjectEndFrom(workOrders[Order], FromISO(Placement.date)).err = ""
              => ~OverlapsPlaced(FromISO(Placement.date))

\* Every id in a dependsOn list of the input is the id of an input order
AllDependenciesExist ==
    \A i \in Ids : \A k \in 1..Len(inputOrders[i].dependsOnWorkOrderIds) :
        FindById(inputOrders, inputOrders[i].dependsOnWorkOrderIds[k]) # 0

\* C14: on an acyclic input whose dependency ids and work center ids all
\* exist, every order ends up placed and the queue drains, also when an
\* order depends on an order of another machine.  (Stated for the calls that
\* return; a call that throws out of the calendar helpers is left aside.)
C14_EveryOrderPlaced ==
    (Done /\ run = 1 /\ result.returned /\ ~InputCyclic /\ AllDependenciesExist
          /\ UnknownCenterOrders = {}) =>
        /\ Ids \subseteq ScheduledRefs
        /\ workingOrders = << >>

\* The ids in the dependsOn list of the head order that no placed order
\* carries, in dependsOn order, and the orders they name
UnplacedDependencyIds ==
    SelectSeq(workOrders[Order].dependsOnWorkOrderIds, LAMBDA depId :
        \A r \in ScheduledRefs : workOrders[r].docId # depId)

UnplacedDependencies ==
    [k \in 1..Len(UnplacedDependencyIds) |-> FindById(workOrders, UnplacedDependencyIds[k])]

\* Every id some placed order depends on is the id of a placed order
PlacedAfterDependencies ==
    \A r \in ScheduledRefs : \A k \in 1..Len(workOrders[r].dependsOnWorkOrderIds) :
        \E q \in ScheduledRefs :
            workOrders[q].docId = workOrders[r].dependsOnWorkOrderIds[k]

\* A pass of the worklist loop that takes from the head an order with an
\* unplaced dependency leaves it unplaced, puts its unplaced dependencies
\* at the front of the queue in dependsOn order and the order at the back
DeferralStep ==
    (LoopRuns /\ AllDependenciesExist /\ Len(UnplacedDependencyIds) > 0) =>
        /\ schedule' = Keyed
        /\ workingOrders' = UnplacedDependencies \o Tail(workingOrders) \o << Order >>

\* C15: in every state of the worklist loop each placed order has all its
\* dependencies placed: an order taken from the head with an unplaced
\* dependency is not placed in that pass, its unplaced dependencies go to
\* the front of the queue in dependsOn order and the order to the back.
C15_DeferredBehindDependencies ==
    [] PlacedAfterDependencies /\ [][DeferralStep]_vars

-----------------------------------------------------------------------------
(* The calendar functions, on the instants the driver hands them.  Every   *)
(* instant of the inputs, every shift bound and every window bound is a    *)
(* whole hour, so working time is counted in hours.                        *)

\* The whole hours from a up to, not including, b
HoursFrom(a, b) == {a + 60 * h : h \in 0..(((b - a) \div 60) - 1)}

\* Minutes of [a, b) that are inside a shift and outside every window
WorkingMinutes(a, b, workCenter) ==
    60 * Cardinality({u \in HoursFrom(a, b) : WorkingInstant(u, workCenter)})

HasShifts(workCenter) == Len(workCenter.shifts) > 0

\* The instant findEarliestStartTime hands to getNextAvailableTime (line 185)
EarliestAfterDependencies ==
    FromISO(GetEarliestStartAfterDependencies(workOrders[Order],
                Objs(workOrders, workCenterSchedules[workOrders[Order].workCenterId])))

\* C16: on a work center with at least one shift nextAvailable(t, wc) is the
\* earliest instant t' >= t inside the shift interval of its weekday and
\* inside no maintenance window.
C16_NextAvailableIsWorking ==
    (Placing /\ HasShifts(WorkCenterOf(workOrders[Order]))) =>
        /\ ProposedStart.err = ""
        /\ FromISO(ProposedStart.date) >= EarliestAfterDependencies
        /\ WorkingInstant(FromISO(ProposedStart.date), WorkCenterOf(workOrders[Order]))
        /\ WorkingMinutes(EarliestAfterDependencies, FromISO(ProposedStart.date),
                          WorkCenterOf(workOrders[Order])) = 0

\* The placed orders whose end the driver computed, on a work center with
\* shifts (in the first call the heap index of an order is its input index)
Projected ==
    {r \in ScheduledRefs : /\ run = 1
                           /\ ~workOrders[r].isMaintenance
                           /\ HasShifts(WorkCenterOf(workOrders[r]))}

\* e is the instant at which exactly the order's duration of working time
\* has elapsed since the start the order had in the input
ExactlyWorked(r, e) ==
    /\ WorkingMinutes(StartOf(inputOrders[r]), e, WorkCenterOf(inputOrders[r]))
         = inputOrders[r].durationMinutes
    /\ inputOrders[r].durationMinutes = 0 => e = StartOf(inputOrders[r])
    /\ inputOrders[r].durationMinutes > 0 =>
          WorkingInstant(e - 60, WorkCenterOf(inputOrders[r]))

\* C17: projectEnd(start, d, wc) is the instant at which exactly d minutes
\* inside a shift and outside every maintenance window have elapsed since
\* start; a window between start and the result is not working time.
C17_ProjectEndSkipsMaintenance ==
    \A r \in Projected : ExactlyWorked(r, EndOf(workOrders[r]))

\* C18: when start lies inside a maintenance window and d > 0, projectEnd
\* returns what projectEnd(nextAvailable(start, wc), d, wc) returns and does
\* not run into its iteration cap.
C18_StartInsideMaintenance ==
    (Placing /\ HasShifts(WorkCenterOf(workOrders[Order]))
             /\ workOrders[Order].durationMinutes > 0
             /\ IsInMaintenanceWindow(workOrders[Order].startDate,
                                      WorkCenterOf(workOrders[Order]))) =>
        /\ CalculateEndDateWithShifts(workOrders[Order],
                                      WorkCenterOf(workOrders[Order])).err = ""
        /\ CalculateEndDateWithShifts(workOrders[Order], WorkCenterOf(workOrders[Order]))
             = ProjectEndFrom(workOrders[Order],
                   FromISO(GetNextAvailableTime(workOrders[Order].startDate,
                                                WorkCenterOf(workOrders[Order])).date))

\* C19: without maintenance windows projectEnd carries unfinished work over
\* the shift end to the next shift: the in-shift minutes of [start, result)
\* are exactly d.
C19_CarriesAcrossShiftEnd ==
    \A r \in Projected :
        WorkCenterOf(inputOrders[r]).maintenanceWindows = << >> =>
            ExactlyWorked(r, EndOf(workOrders[r]))

\* An order placed on a work center without windows that started inside a
\* shift with less than its duration left in it, and ends on a later day.
C19_Witness ==
    \E r \in Projected :
        /\ WorkCenterOf(inputOrders[r]).maintenanceWindows = << >>
        /\ WorkingInstant(StartOf(inputOrders[r]), WorkCenterOf(inputOrders[r]))
        /\ WorkingMinutes(StartOf(inputOrders[r]),
                          NextDayStart(StartOf(inputOrders[r])),
                          WorkCenterOf(inputOrders[r])) < inputOrders[r].durationMinutes
        /\ StartOfDay(EndOf(workOrders[r])) > StartOfDay(StartOf(inputOrders[r]))

\* t is the end of the shift of its day
AtShiftEnd(t, workCenter) ==
    /\ GetShiftForDay(Weekday(t) % DaysPerWeek, workCenter) # NoShift
    /\ t = SetHour(t, GetShiftForDay(Weekday(t) % DaysPerWeek, workCenter).endHour)

\* C20: a non-pinned order whose start is exactly the shift end of its day
\* is placed with a start inside a shift and outside maintenance, never at
\* the shift-end instant.
C20_ShiftEndStartAdvanced ==
    \A r \in Projected :
        AtShiftEnd(StartOf(inputOrders[r]), WorkCenterOf(inputOrders[r])) =>
            /\ StartOf(workOrders[r]) # StartOf(inputOrders[r])
            /\ WorkingInstant(StartOf(workOrders[r]), WorkCenterOf(inputOrders[r]))

\* C21: a placed non-pinned order of duration 0 has end = nextAvailable(start,
\* wc) for the start reflow wrote.
C21_ZeroDurationEnd ==
    \A r \in Projected :
        (workOrders[r].durationMinutes = 0
         /\ GetNextAvailableTime(workOrders[r].startDate,
                                 WorkCenterOf(workOrders[r])).err = "") =>
            EndOf(workOrders[r])
              = FromISO(GetNextAvailableTime(workOrders[r].startDate,
                                             WorkCenterOf(workOrders[r])).date)

\* Some dependsOn list of the input names an id that no input order carries
ReferencesAbsentId == ~AllDependenciesExist

\* C22: detectCycles reports an error if and only if the graph order ->
\* dependsOn over the ids present in the list has a cycle; an id that is
\* referenced but absent is ignored and produces no error.
C22_CycleErrorsIffCycle ==
    /\ Len(DetectCircularDependencies(inputOrders)) > 0 <=> InputCyclic
    /\ (Done /\ result.returned) =>
          ((\E k \in 1..Len(result.errors) : result.errors[k].kind = "circular")
              <=> InputCyclic)

\* reflow has returned the cycle errors on an input that has a cycle and
\* also names an absent id.
C22_Witness ==
    /\ Done
    /\ result.returned
    /\ InputCyclic
    /\ ReferencesAbsentId
    /\ \E k \in 1..Len(result.errors) : result.errors[k].kind = "circular"

\* Some dependency of input order o ends after the start o had in the input
DependencyDelayed(o) ==
    \E k \in 1..Len(inputOrders[o].dependsOnWorkOrderIds) :
        /\ FindById(inputOrders, inputOrders[o].dependsOnWorkOrderIds[k]) # 0
        /\ EndOf(workOrders[FindById(inputOrders, inputOrders[o].dependsOnWorkOrderIds[k])])
             > StartOf(inputOrders[o])

\* Another input order is assigned to the work center of input order o
SharesMachine(o) ==
    \E j \in Ids \ {o} : inputOrders[j].workCenterId = inputOrders[o].workCenterId

ExpectedReason(o) ==
    IF DependencyDelayed(o) THEN "Dependency delayed"
    ELSE IF SharesMachine(o) THEN "Work center conflict"
    ELSE "Shift or maintenance constraint"

\* C23: the reason of a recorded Change is the dependency delay when a
\* dependency ends after the order's original start, else the machine
\* conflict when any other input order shares the machine, placed or not,
\* else the shift-or-maintenance reason.
C23_ChangeReason ==
    run = 1 =>
        \A k \in 1..Len(changes) :
            changes[k].reason[1].kind
              = ExpectedReason(FindById(inputOrders, changes[k].workOrderId))

\* C24: in every schedule reflow returns, each non-pinned placed order with
\* durationMinutes > 0 has start < end.
C24_PlacedIntervalNonEmpty ==
    (Done /\ result.returned) =>
        \A p \in Positions :
            (~PlacedAt(p).isMaintenance /\ PlacedAt(p).durationMinutes > 0) =>
                StartOf(PlacedAt(p)) < EndOf(PlacedAt(p))

\* C25: when reflow returns success = false with an empty updatedWorkOrders
\* and no changes, no input order has had its start or end modified.
C25_FailureLeavesInputUntouched ==
    (Done /\ run = 1 /\ result.returned /\ ~result.success
          /\ result.updatedWorkOrders = << >> /\ result.changes = << >>) =>
        \A i \in Ids :
            /\ StartOf(workOrders[i]) = StartOf(inputOrders[i])
            /\ EndOf(workOrders[i]) = EndOf(inputOrders[i])

\* The input orders on the work center of the head order, as the resolver
\* is given them, and the candidate starts of its passes for the head order
ExistingOrders == Objs(workOrders, workCenterSchedules[workOrders[Order].workCenterId])

Candidates ==
    ResolveCandidates(ProposedStart.date, 0, workOrders[Order], ExistingOrders,
                      WorkCenterOf(workOrders[Order]))

\* C26: in the conflict resolver the candidate start strictly increases on
\* every pass that finds a conflict, the resolver returns after at most
\* (number of input orders on the machine + 1) passes, and with fewer than
\* 100 orders on a machine its 100-attempt error is not reached.
C26_ResolverAdvances ==
    (Placing /\ ProposedStart.err = "") =>
        /\ \A k \in 1..(Len(Candidates) - 1) :
              FromISO(Candidates[k]) < FromISO(Candidates[k + 1])
        /\ Len(Candidates) <= Len(ExistingOrders) + 1
        /\ Placement.err # "Could not resolve work center conflict"
        /\ Placement.err = "" => Placement.date = Candidates[Len(Candidates)]

\* The resolver moves the head order past a conflict on a machine that two
\* input orders share, and returns.
C26_Witness ==
    /\ Placing
    /\ ProposedStart.err = ""
    /\ Placement.err = ""
    /\ Len(ExistingOrders) >= 2
    /\ Len(Candidates) >= 2

=============================================================================
